---- MODULE Spec2Model ----
(***************************************************************************)
(* kSharp: the script compiler (Compiler.tokenize, Compiler.compile) and   *)
(* the tick-driven virtual machine (VM.run, VM.tick, VM.eval) of           *)
(* src/engine.js, with the host handlers of the front end that call them.  *)
(*                                                                         *)
(* Representation.                                                         *)
(*  - A source text is a sequence of glyphs.  A glyph is a string that     *)
(*    stands for a run of characters of one lexical class: a run of        *)
(*    [A-Za-z0-9_], or one single other character.  Token values keep      *)
(*    their glyphs, so the regular expressions of the code are modelled    *)
(*    by what they match, glyph by glyph.                                  *)
(*  - A JavaScript value is a record [k, n, d, s]: a number is the         *)
(*    rational n/d in lowest terms (k = "num"), and NaN, +-Infinity,       *)
(*    undefined, booleans and strings are kinds of their own.  Rounding    *)
(*    of binary floating point is not modelled.                            *)
(***************************************************************************)
EXTENDS Integers, Sequences, FiniteSets, TLC

\* The VM (instructions .. vars), the physics collaborator, and what the
\* last call sent to the log sink.
VARIABLES instructions, pc, running, waitTimer, vars, phys, log
\* History, read by the properties only:
\*   last    the handler that ran last, and thrown: an exception left it;
\*   loaded  the source last given to run, and how its compilation ended;
\*   ticks   the loop calls that found the loaded program running (bounded);
\*   batch   the last tick call: the state it started in, then the state
\*           after each instruction it executed (at: that instruction);
\*   hits    how often each instruction was executed since the last run call;
\*   wait    the last WAIT executed: its time, and the dt of the ticks that
\*           passed since without executing an instruction.
VARIABLES last, thrown, loaded, ticks, batch, hits, wait

vmvars == <<instructions, pc, running, waitTimer, vars>>
history == <<last, thrown, loaded, ticks, batch, hits, wait>>
allvars == <<instructions, pc, running, waitTimer, vars, phys, log,
             last, thrown, loaded, ticks, batch, hits, wait>>

(***************************************************************************)
(* JavaScript values and the arithmetic the evaluated expressions use.     *)
(***************************************************************************)
Abs(x) == IF x < 0 THEN -x ELSE x

RECURSIVE Gcd(_, _)
Gcd(a, b) == IF b = 0 THEN a ELSE Gcd(b, a % b)

\* The number n/d (d # 0), in lowest terms with a positive denominator.
Num(n, d) ==
    LET g == Gcd(Abs(n), Abs(d))
        s == IF d < 0 THEN -1 ELSE 1
    IN  [k |-> "num", n |-> (s * n) \div g, d |-> Abs(d) \div g, s |-> ""]

I(n) == [k |-> "num", n |-> n, d |-> 1, s |-> ""]
NaN == [k |-> "nan", n |-> 0, d |-> 1, s |-> ""]
Inf(sign) == [k |-> "inf", n |-> sign, d |-> 1, s |-> ""]
Undefined == [k |-> "undef", n |-> 0, d |-> 1, s |-> ""]
Bool(b) == [k |-> "bool", n |-> IF b THEN 1 ELSE 0, d |-> 1, s |-> ""]
Str(t) == [k |-> "str", n |-> 0, d |-> 1, s |-> t]

Sign(x) == IF x < 0 THEN -1 ELSE IF x > 0 THEN 1 ELSE 0

\* ToNumber: booleans are 0/1, undefined is NaN, "" is 0 and any other
\* string of the model is not numeric.
ToNumber(v) ==
    CASE v.k = "bool" -> I(v.n)
      [] v.k = "undef" -> NaN
      [] v.k = "str" -> IF v.s = "" THEN I(0) ELSE NaN
      [] OTHER -> v

\* The condition test of `x ? a : b`: 0, NaN, undefined, false and "" are falsy.
Truthy(v) ==
    CASE v.k = "num" -> v.n # 0
      [] v.k = "inf" -> TRUE
      [] v.k = "bool" -> v.n = 1
      [] v.k = "str" -> v.s # ""
      [] OTHER -> FALSE

NumAdd(a, b) ==
    CASE a.k = "nan" \/ b.k = "nan" -> NaN
      [] a.k = "inf" /\ b.k = "inf" -> IF a.n = b.n THEN a ELSE NaN
      [] a.k = "inf" -> a
      [] b.k = "inf" -> b
      [] OTHER -> Num(a.n * b.d + b.n * a.d, a.d * b.d)

NumNeg(a) ==
    CASE a.k = "nan" -> NaN
      [] a.k = "inf" -> Inf(-a.n)
      [] OTHER -> Num(-a.n, a.d)

NumMul(a, b) ==
    CASE a.k = "nan" \/ b.k = "nan" -> NaN
      [] a.k = "inf" \/ b.k = "inf" ->
            IF Sign(a.n) * Sign(b.n) = 0 THEN NaN ELSE Inf(Sign(a.n) * Sign(b.n))
      [] OTHER -> Num(a.n * b.n, a.d * b.d)

NumDiv(a, b) ==
    CASE a.k = "nan" \/ b.k = "nan" -> NaN
      [] a.k = "inf" /\ b.k = "inf" -> NaN
      [] a.k = "inf" -> Inf(IF b.n < 0 THEN -a.n ELSE a.n)
      [] b.k = "inf" -> I(0)
      [] b.n = 0 -> IF a.n = 0 THEN NaN ELSE Inf(Sign(a.n))
      [] OTHER -> Num(a.n * b.d, a.d * b.n)

\* a < b on numbers; false as soon as one side is NaN.
NumLt(a, b) ==
    CASE a.k = "nan" \/ b.k = "nan" -> FALSE
      [] a.k = "inf" /\ b.k = "inf" -> a.n < b.n
      [] a.k = "inf" -> a.n < 0
      [] b.k = "inf" -> b.n > 0
      [] OTHER -> a.n * b.d < b.n * a.d

NumEq(a, b) == a.k # "nan" /\ b.k # "nan" /\ a = b

\* The binary operators of an expression, on JavaScript values.
JsAdd(a, b) ==
    IF a.k = "str" /\ b.k = "str" THEN Str(a.s \o b.s)
    ELSE NumAdd(ToNumber(a), ToNumber(b))
JsSub(a, b) == NumAdd(ToNumber(a), NumNeg(ToNumber(b)))
JsMul(a, b) == NumMul(ToNumber(a), ToNumber(b))
JsDiv(a, b) == NumDiv(ToNumber(a), ToNumber(b))
JsLt(a, b) == Bool(NumLt(ToNumber(a), ToNumber(b)))
JsGt(a, b) == Bool(NumLt(ToNumber(b), ToNumber(a)))
JsLe(a, b) == Bool(NumLt(ToNumber(a), ToNumber(b)) \/ NumEq(ToNumber(a), ToNumber(b)))
JsGe(a, b) == Bool(NumLt(ToNumber(b), ToNumber(a)) \/ NumEq(ToNumber(a), ToNumber(b)))
\* a == b: undefined equals only undefined, strings compare as strings,
\* everything else as numbers.
JsEq(a, b) ==
    CASE a.k = "undef" \/ b.k = "undef" -> Bool(a.k = b.k)
      [] a.k = "str" /\ b.k = "str" -> Bool(a.s = b.s)
      [] OTHER -> Bool(NumEq(ToNumber(a), ToNumber(b)))
\* a === b: no coercion.
JsStrictEq(a, b) == Bool(a.k = b.k /\ a.k # "nan" /\ a = b)
JsNot(a) == Bool(~Truthy(a))

\* Math.min / Math.max of two arguments.
MathMax(a, b) ==
    LET x == ToNumber(a)
        y == ToNumber(b)
    IN  IF x.k = "nan" \/ y.k = "nan" THEN NaN ELSE IF NumLt(x, y) THEN y ELSE x
MathMin(a, b) ==
    LET x == ToNumber(a)
        y == ToNumber(b)
    IN  IF x.k = "nan" \/ y.k = "nan" THEN NaN ELSE IF NumLt(y, x) THEN y ELSE x

(***************************************************************************)
(* Compiler.tokenize                                                       *)
(***************************************************************************)
OpChars == {"-", "+", "*", "/", "=", "<", ">", "!"}
PunctChars == {"{", "}", "(", ")", ",", "."}
Quote == "\""
Newline == "\n"
\* Characters the token regex matches nowhere: they are dropped.
OtherChars == {" ", Newline, ";", "&", "|"}

IsOp(g) == g \in OpChars
IsPunct(g) == g \in PunctChars
\* [a-zA-Z0-9_:]+ : every glyph that is none of the above, ":" included.
IsWordClass(g) == g \notin OpChars \cup PunctChars \cup OtherChars \cup {Quote}

Keywords == {"PRINT", "WAIT", "LOCK", "TO", "STAGE", "CLEARSCREEN", "IF", "ELSE",
             "UNTIL", "AT", "DECLARE", "PARAMETER", "SET"}

\* The text of a glyph sequence.
RECURSIVE Flat(_)
Flat(gs) == IF gs = <<>> THEN "" ELSE Head(gs) \o Flat(Tail(gs))

\* The concatenation of f[lo], ..., f[hi], a function of sequences.
RECURSIVE Concat(_, _, _)
Concat(f, lo, hi) ==
    IF lo > hi THEN <<>>
    ELSE IF lo = hi THEN f[lo]
    ELSE Concat(f, lo, (lo + hi) \div 2) \o Concat(f, (lo + hi) \div 2 + 1, hi)

\* /\/\/.*/ matches at i: a "//" at or before i, and no line break from
\* there up to i.
InComment(src, i) ==
    \E j \in 1..i : /\ j < Len(src)
                    /\ src[j] = "/"
                    /\ src[j + 1] = "/"
                    /\ \A k \in j..i : src[k] # Newline

\* src.replace(/\/\/.*/g, ''): from "//" up to, not including, the line break.
StripComments(src) ==
    Concat([i \in 1..Len(src) |-> IF InComment(src, i) THEN <<>> ELSE <<src[i]>>],
           1, Len(src))

\* The end (inclusive) of the longest run of glyphs of the class of src[i]
\* that starts at i.
RunEnd(src, i, word) ==
    LET In(k) == IF word THEN IsWordClass(src[k]) ELSE IsOp(src[k])
    IN  CHOOSE e \in i..Len(src) : /\ \A k \in i..e : In(k)
                                   /\ e = Len(src) \/ ~In(e + 1)

Quotes(src, lo, hi) == {j \in lo..hi : src[j] = Quote}

\* "[^"]*" : the quotes pair up from the left, and one left over is dropped.
\* i lies inside a string token, its two quotes included.
InString(src, i) ==
    IF Cardinality(Quotes(src, 1, i - 1)) % 2 = 1
    THEN Quotes(src, i, Len(src)) # {}
    ELSE src[i] = Quote /\ Quotes(src, i + 1, Len(src)) # {}

\* The index of the first Quote after i; only where there is one.
NextQuote(src, i) == CHOOSE q \in Quotes(src, i + 1, Len(src)) :
                        Quotes(src, i + 1, q - 1) = {}

MkToken(val) ==
    [type |-> IF Flat(val) \in Keywords THEN "KEYWORD" ELSE "ATOM", val |-> val]

\* The token the regex matches from i on, as a sequence of one token, and
\* <<>> where no match starts at i.
TokenAt(src, i) ==
    IF src[i] = Quote
    THEN IF Cardinality(Quotes(src, 1, i - 1)) % 2 = 0 /\ InString(src, i)
         THEN <<MkToken(SubSeq(src, i, NextQuote(src, i)))>>
         ELSE <<>>
    ELSE IF InString(src, i) THEN <<>>
    ELSE IF IsWordClass(src[i])
         THEN IF i > 1 /\ IsWordClass(src[i - 1]) THEN <<>>
              ELSE <<MkToken(SubSeq(src, i, RunEnd(src, i, TRUE)))>>
    ELSE IF IsOp(src[i])
         THEN IF i > 1 /\ IsOp(src[i - 1]) /\ ~InString(src, i - 1) THEN <<>>
              ELSE <<MkToken(SubSeq(src, i, RunEnd(src, i, FALSE)))>>
    ELSE IF IsPunct(src[i]) THEN <<MkToken(<<src[i]>>)>>
    ELSE <<>>

\* src.match(regex): the matches left to right, unmatched characters skipped.
Match(src) == Concat([i \in 1..Len(src) |-> TokenAt(src, i)], 1, Len(src))

tokenize(src) == Match(StripComments(src))

(***************************************************************************)
(* Compiler.compile.  Token and instruction indices are the code's         *)
(* 0-based indices; toks[i + 1] is the code's tokens[i].                   *)
(***************************************************************************)
\* Numeric literals of the scripts: the glyphs "0", "1", ..., up to MaxLiteral.
MaxLiteral == 30

IsDigits(g) == \E n \in 0..MaxLiteral : ToString(n) = g
DigitsValue(g) == CHOOSE n \in 0..MaxLiteral : ToString(n) = g

\* parseFloat of a token value: the number its text starts with, else NaN.
\* (A word glyph of the model is all digits or starts with no digit.)
parseFloat(val) ==
    IF val = <<>> THEN NaN
    ELSE IF IsDigits(Head(val)) THEN I(DigitsValue(Head(val)))
    ELSE IF Head(val) = "Infinity" THEN Inf(1)
    ELSE NaN

Instr(op) ==
    [op |-> op, expr |-> <<>>, target |-> <<>>, at |-> <<>>, time |-> Undefined, dest |-> 0]

\* tokens[i] is defined.
Has(toks, i) == i >= 0 /\ i < Len(toks)
\* tokens[i].val as text; only where Has(toks, i).
Val(toks, i) == Flat(toks[i + 1].val)

\* gather(idx): the token values from idx up to the first "{", "." or AT.
RECURSIVE gather(_, _)
gather(toks, idx) ==
    IF Has(toks, idx) /\ Val(toks, idx) \notin {"{", ".", "AT"}
    THEN LET r == gather(toks, idx + 1)
         IN  [tokens |-> <<toks[idx + 1].val>> \o r.tokens, end |-> r.end]
    ELSE [tokens |-> <<>>, end |-> idx]

\* A backpatch one instruction too far: a faulty variant, which the
\* pc-range property (below) rules out.
Patch_OffByOne(ins, idx, dest) == [ins EXCEPT ![idx + 1].dest = dest + 1]

\* instructions[idx].dest = dest
Patch(ins, idx, dest) == [ins EXCEPT ![idx + 1].dest = dest]

Push(st, ins) == [st EXCEPT !.ins = st.ins \o <<ins>>]
\* Reading .val of a token that does not exist throws a TypeError.
Throw(st) == [st EXCEPT !.err = TRUE]

\* One pass of the body of the for loop of compile at token i: the compiler
\* state after it and the value of i before the loop's i++.
CompilePRINT(toks, i, st) ==
    LET res == gather(toks, i + 1)
        j == res.end
    IN  IF Has(toks, j) /\ Val(toks, j) = "AT"
        THEN IF Has(toks, j + 2) /\ Has(toks, j + 4)
             THEN [i |-> j + 5,
                   st |-> Push(st, [Instr("PRINT") EXCEPT !.expr = res.tokens,
                                       !.at = <<toks[j + 3].val, toks[j + 5].val>>])]
             ELSE [i |-> j, st |-> Throw(st)]
        ELSE [i |-> j, st |-> Push(st, [Instr("PRINT") EXCEPT !.expr = res.tokens])]

\* LOCK and SET: the target is tokens[i+1], the expression starts at
\* tokens[i+3]; tokens[i+2] is not looked at.
CompileAssign(toks, i, st, op) ==
    IF ~Has(toks, i + 1) THEN [i |-> i, st |-> Throw(st)]
    ELSE LET res == gather(toks, i + 3)
         IN  [i |-> res.end,
              st |-> Push(st, [Instr(op) EXCEPT !.target = toks[i + 2].val,
                                                !.expr = res.tokens])]

\* A DECLARE that initialises the parameter to 1: a faulty variant, which
\* the DECLARE property (below) rules out.
CompileDECLARE_One(toks, i, st) ==
    IF Has(toks, i + 1) /\ Val(toks, i + 1) = "PARAMETER"
    THEN IF ~Has(toks, i + 2) THEN [i |-> i, st |-> Throw(st)]
         ELSE [i |-> i + 2,
               st |-> Push(st, [Instr("SET_VAR") EXCEPT !.target = toks[i + 3].val,
                                                       !.expr = <<(<<"1">>)>>])]
    ELSE [i |-> i, st |-> st]

CompileDECLARE(toks, i, st) ==
    IF Has(toks, i + 1) /\ Val(toks, i + 1) = "PARAMETER"
    THEN IF ~Has(toks, i + 2) THEN [i |-> i, st |-> Throw(st)]
         ELSE [i |-> i + 2,
               st |-> Push(st, [Instr("SET_VAR") EXCEPT !.target = toks[i + 3].val,
                                                       !.expr = <<(<<"0">>)>>])]
    ELSE [i |-> i, st |-> st]

CompileWAIT(toks, i, st) ==
    IF ~Has(toks, i + 1) THEN [i |-> i, st |-> Throw(st)]
    ELSE IF Val(toks, i + 1) = "UNTIL"
    THEN LET startPc == Len(st.ins)
             res == gather(toks, i + 2)
         IN  [i |-> res.end,
              st |-> Push(Push(Push(st,
                        [Instr("JMP_TRUE") EXCEPT !.dest = startPc + 3, !.expr = res.tokens]),
                        Instr("YIELD")),
                        [Instr("JMP") EXCEPT !.dest = startPc])]
    ELSE [i |-> i + 1,
          st |-> Push(st, [Instr("WAIT") EXCEPT !.time = parseFloat(toks[i + 2].val)])]

CompileIF(toks, i, st) ==
    LET res == gather(toks, i + 1)
        idx == Len(st.ins)
        s1 == Push(st, [Instr("JMP_FALSE") EXCEPT !.dest = -1, !.expr = res.tokens])
    IN  [i |-> res.end,
         st |-> [s1 EXCEPT !.stack = Append(st.stack, [type |-> "IF", idx |-> idx, start |-> -1])]]

CompileELSE(toks, i, st) ==
    IF st.last # <<>>
    THEN LET jmpIdx == Len(st.ins)
             s1 == Push(st, [Instr("JMP") EXCEPT !.dest = -1])
         IN  [i |-> i + 1,
              st |-> [s1 EXCEPT !.ins = Patch(s1.ins, st.last[1].idx, Len(s1.ins)),
                                !.stack = Append(st.stack,
                                    [type |-> "ELSE", idx |-> jmpIdx, start |-> -1]),
                                !.last = <<>>]]
    ELSE [i |-> i + 1, st |-> st]

CompileUNTIL(toks, i, st) ==
    LET start == Len(st.ins)
        res == gather(toks, i + 1)
        idx == Len(st.ins)
        s1 == Push(st, [Instr("JMP_TRUE") EXCEPT !.dest = -1, !.expr = res.tokens])
    IN  [i |-> res.end,
         st |-> [s1 EXCEPT !.stack = Append(st.stack,
                                [type |-> "UNTIL", idx |-> idx, start |-> start])]]

\* A closing brace that patches and emits as the code does, but leaves the
\* entry on the stack: a faulty variant, which the
\* block-stack property (below) rules out.
CompileClose_NoPop(toks, i, st) ==
    IF st.stack # <<>>
    THEN LET info == st.stack[Len(st.stack)]
         IN  IF info.type = "UNTIL"
             THEN LET s2 == Push(Push(st, Instr("YIELD")),
                                 [Instr("JMP") EXCEPT !.dest = info.start])
                  IN  [i |-> i, st |-> [s2 EXCEPT !.ins = Patch(s2.ins, info.idx, Len(s2.ins))]]
             ELSE [i |-> i,
                   st |-> [st EXCEPT !.ins = Patch(st.ins, info.idx, Len(st.ins)),
                                     !.last = IF info.type = "IF" THEN <<info>> ELSE st.last]]
    ELSE [i |-> i, st |-> st]

CompileClose(toks, i, st) ==
    IF st.stack # <<>>
    THEN LET info == st.stack[Len(st.stack)]
             popped == [st EXCEPT !.stack = SubSeq(st.stack, 1, Len(st.stack) - 1)]
         IN  IF info.type = "UNTIL"
             THEN LET s2 == Push(Push(popped, Instr("YIELD")),
                                 [Instr("JMP") EXCEPT !.dest = info.start])
                  IN  [i |-> i, st |-> [s2 EXCEPT !.ins = Patch(s2.ins, info.idx, Len(s2.ins))]]
             ELSE IF info.type = "IF"
             THEN [i |-> i,
                   st |-> [popped EXCEPT !.ins = Patch(popped.ins, info.idx, Len(popped.ins)),
                                         !.last = <<info>>]]
             ELSE [i |-> i,
                   st |-> [popped EXCEPT !.ins = Patch(popped.ins, info.idx, Len(popped.ins))]]
    ELSE [i |-> i, st |-> st]

CompileStmt(toks, i, st) ==
    LET v == Val(toks, i)
    IN  IF toks[i + 1].type # "KEYWORD" /\ v # "}" THEN [i |-> i, st |-> st]
        ELSE IF v = "PRINT" THEN CompilePRINT(toks, i, st)
        ELSE IF v = "LOCK" THEN CompileAssign(toks, i, st, "LOCK")
        ELSE IF v = "SET" THEN CompileAssign(toks, i, st, "SET_VAR")
        ELSE IF v = "DECLARE" THEN CompileDECLARE(toks, i, st)
        ELSE IF v = "WAIT" THEN CompileWAIT(toks, i, st)
        ELSE IF v = "STAGE" THEN [i |-> i, st |-> Push(st, Instr("STAGE"))]
        ELSE IF v = "CLEARSCREEN" THEN [i |-> i, st |-> Push(st, Instr("CLEAR"))]
        ELSE IF v = "IF" THEN CompileIF(toks, i, st)
        ELSE IF v = "ELSE" THEN CompileELSE(toks, i, st)
        ELSE IF v = "UNTIL" THEN CompileUNTIL(toks, i, st)
        ELSE IF v = "}" THEN CompileClose(toks, i, st)
        ELSE [i |-> i, st |-> st]

\* The passes of the for loop of compile whose i lies in lo..hi; st.i is
\* the i of the next pass.  The loop ends when a TypeError escapes.
RECURSIVE CompileLoop(_, _, _, _)
CompileLoop(toks, lo, hi, st) ==
    IF lo > hi THEN st
    ELSE IF lo = hi
         THEN IF st.err \/ st.i # lo THEN st
              ELSE LET r == CompileStmt(toks, lo, st)
                   IN  [r.st EXCEPT !.i = r.i + 1]
    ELSE LET left == CompileLoop(toks, lo, (lo + hi) \div 2, st)
         IN  IF left.err THEN left
             ELSE CompileLoop(toks, (lo + hi) \div 2 + 1, hi, left)

\* compile(source): err when a TypeError escapes; otherwise the instructions
\* returned, with the block stack as it is at the return.
compile(source) ==
    LET toks == tokenize(source)
    IN  CompileLoop(toks, 0, Len(toks) - 1,
                    [ins |-> <<>>, stack |-> <<>>, last |-> <<>>, err |-> FALSE, i |-> 0])

(***************************************************************************)
(* VM.eval, first half: the text the expression becomes.  The joined text  *)
(* is a sequence of items [g, v, sub]: g is the glyph; an item written by  *)
(* a replacement has sub = TRUE and carries the value v whose text it is.  *)
(***************************************************************************)
Item(g) == [g |-> g, v |-> Undefined, sub |-> FALSE]

\* String(v): the text a replacement writes for the value v.
NumStr(v) ==
    CASE v.k = "num" -> IF v.d = 1 THEN ToString(v.n)
                        ELSE ToString(v.n) \o "/" \o ToString(v.d)
      [] v.k = "nan" -> "NaN"
      [] v.k = "inf" -> IF v.n < 0 THEN "-Infinity" ELSE "Infinity"
      [] v.k = "undef" -> "undefined"
      [] v.k = "bool" -> IF v.n = 1 THEN "true" ELSE "false"
      [] OTHER -> v.s

\* The item a replacement by the value v writes: the text of a string is
\* spliced in as it is, without quotes.
Written(v) ==
    IF v.k = "str" THEN Item(v.s) ELSE [g |-> NumStr(v), v |-> v, sub |-> TRUE]

Items(val) == [j \in 1..Len(val) |-> Item(val[j])]

\* tokens.join(' ')
RECURSIVE Join(_)
Join(tokens) ==
    IF tokens = <<>> THEN <<>>
    ELSE IF Len(tokens) = 1 THEN Items(tokens[1])
    ELSE Items(tokens[1]) \o <<Item(" ")>> \o Join(Tail(tokens))

\* [A-Za-z0-9_] at the two ends of an item's text (the \w of \b).
IsW(g) == IsWordClass(g) /\ g # ":"
WStart(it) == IF it.sub THEN it.v.k \in {"nan", "undef", "bool"}
                            \/ (it.v.k \in {"num", "inf"} /\ it.v.n >= 0)
              ELSE IsW(it.g)
WEnd(it) == IF it.sub THEN TRUE ELSE IsW(it.g)

\* \b between str[p - 1] and str[p].
Boundary(str, p) ==
    LET before == p > 1 /\ p - 1 <= Len(str) /\ WEnd(str[p - 1])
        after == p >= 1 /\ p <= Len(str) /\ WStart(str[p])
    IN  before # after

\* The glyphs pat occur in str at position p (text written by an earlier
\* replacement is a number and matches no name).
MatchesAt(str, p, pat) ==
    /\ p + Len(pat) - 1 <= Len(str)
    /\ \A j \in 1..Len(pat) : ~str[p + j - 1].sub /\ str[p + j - 1].g = pat[j]

\* str.replace(/pat/g, v), and with word: str.replace(/\bpat\b/g, v)
RECURSIVE Replace(_, _, _, _, _)
Replace(str, p, pat, v, word) ==
    IF p > Len(str) THEN <<>>
    ELSE IF /\ pat # <<>>
            /\ MatchesAt(str, p, pat)
            /\ (word => Boundary(str, p) /\ Boundary(str, p + Len(pat)))
         THEN <<Written(v)>> \o Replace(str, p + Len(pat), pat, v, word)
         ELSE <<str[p]>> \o Replace(str, p + 1, pat, v, word)

\* /HEADING\s*\(\s*(\d+)\s*,\s*(\d+)\s*\)/ at p: the position after the
\* match and the item of $2, or end = 0.
RECURSIVE SkipSpaces(_, _)
SkipSpaces(str, p) ==
    IF p <= Len(str) /\ str[p].g = " " THEN SkipSpaces(str, p + 1) ELSE p

IsAt(str, p, g) == p <= Len(str) /\ ~str[p].sub /\ str[p].g = g
DigitsAt(str, p) == p <= Len(str) /\ ~str[p].sub /\ IsDigits(str[p].g)

HeadingAt(str, p) ==
    LET p1 == SkipSpaces(str, p + 1)
        p2 == SkipSpaces(str, p1 + 1)
        p3 == SkipSpaces(str, p2 + 1)
        p4 == SkipSpaces(str, p3 + 1)
        p5 == SkipSpaces(str, p4 + 1)
    IN  IF /\ IsAt(str, p, "HEADING") /\ IsAt(str, p1, "(") /\ DigitsAt(str, p2)
           /\ IsAt(str, p3, ",") /\ DigitsAt(str, p4) /\ IsAt(str, p5, ")")
        THEN [end |-> p5 + 1, it |-> str[p4]]
        ELSE [end |-> 0, it |-> Item("")]

RECURSIVE ReplaceHeading(_, _)
ReplaceHeading(str, p) ==
    IF p > Len(str) THEN <<>>
    ELSE LET m == HeadingAt(str, p)
         IN  IF m.end # 0 THEN <<m.it>> \o ReplaceHeading(str, m.end)
             ELSE <<str[p]>> \o ReplaceHeading(str, p + 1)

\* /ROUND\(([^)]+)\)/ at p: ROUND, "(" right after it, one character or
\* more that is not ")", then ")".  The position of the ")" or 0.
RECURSIVE CloseParen(_, _)
CloseParen(str, p) ==
    IF p > Len(str) THEN 0
    ELSE IF ~str[p].sub /\ str[p].g = ")" THEN p ELSE CloseParen(str, p + 1)

RoundAt(str, p) ==
    IF IsAt(str, p, "ROUND") /\ IsAt(str, p + 1, "(") /\ CloseParen(str, p + 2) > p + 2
    THEN CloseParen(str, p + 2) ELSE 0

RECURSIVE ReplaceRound(_, _)
ReplaceRound(str, p) ==
    IF p > Len(str) THEN <<>>
    ELSE LET c == RoundAt(str, p)
         IN  IF c # 0
             THEN <<Item("Math.round")>> \o SubSeq(str, p + 1, c) \o ReplaceRound(str, c + 1)
             ELSE <<str[p]>> \o ReplaceRound(str, p + 1)

\* new RegExp("\\b" + key + "\\b") throws a SyntaxError: a "+" or "*" with
\* nothing to repeat, or a parenthesis.
RegExpThrows(key) ==
    \/ \E j \in 1..Len(key) : key[j] \in {"(", ")"}
    \/ \E j \in 1..Len(key) :
          /\ key[j] \in {"+", "*"}
          /\ (j = 1 \/ key[j - 1] \in {"+", "*"})

\* The loop over this.vars, in the order of insertion.
RECURSIVE ReplaceVars(_, _, _)
ReplaceVars(str, vs, j) ==
    IF j > Len(vs) THEN [threw |-> FALSE, str |-> str]
    ELSE IF RegExpThrows(vs[j].key) THEN [threw |-> TRUE, str |-> str]
    ELSE ReplaceVars(Replace(str, 1, vs[j].key, vs[j].val, TRUE), vs, j + 1)

\* The text handed to the JavaScript eval.
Substituted(tokens, vs, ph) ==
    LET o == ph.orbit
        s0 == Join(tokens)
        s1 == ReplaceHeading(s0, 1)
        s2 == Replace(s1, 1, <<"ALTITUDE">>, o.alt, FALSE)
        s3 == Replace(s2, 1, <<"APOAPSIS">>, o.ap, FALSE)
        s4 == Replace(s3, 1, <<"PERIAPSIS">>, o.pe, FALSE)
        s5 == Replace(s4, 1, <<"ETA", ":", "APOAPSIS">>, o.eta, FALSE)
        s6 == Replace(s5, 1, <<"FUEL">>, NumDiv(ph.fuel, ph.fuelStart), FALSE)
        s7 == Replace(s6, 1, <<"THROTTLE">>, ph.throttle, FALSE)
        s8 == ReplaceRound(s7, 1)
    IN  ReplaceVars(s8, vs, 1)

(***************************************************************************)
(* VM.eval, second half: what JavaScript's eval makes of the text.         *)
(* Modelled: numeric and string literals, NaN, Infinity, undefined, true,  *)
(* false, unary - + !, binary * / + - < > <= >= == != === !==, the comma,  *)
(* parentheses, Math.round(...), and a statement label `name :`.  Any      *)
(* other text is a SyntaxError or a ReferenceError (fail).  The scripts    *)
(* of the model use no other operator (exponent, shifts, assignment,       *)
(* increment) and no name that is in scope of the eval call.               *)
(***************************************************************************)
Lexeme(t, g, v) == [t |-> t, g |-> g, v |-> v]

JsOps3 == {"===", "!=="}
JsOps2 == {"==", "!=", "<=", ">=", "++", "--", "**", "<<", ">>", "+=", "-=", "*=", "/="}

\* The position of the Quote item closing a string opened before p, or 0.
RECURSIVE CloseQuote(_, _)
CloseQuote(str, p) ==
    IF p > Len(str) THEN 0
    ELSE IF ~str[p].sub /\ str[p].g = Quote THEN p ELSE CloseQuote(str, p + 1)

RECURSIVE FlatItems(_, _, _)
FlatItems(str, p, q) == IF p > q THEN "" ELSE str[p].g \o FlatItems(str, p + 1, q)

WordLexeme(g) ==
    CASE g = "NaN" -> Lexeme("name", g, NaN)
      [] g = "Infinity" -> Lexeme("name", g, Inf(1))
      [] g = "undefined" -> Lexeme("name", g, Undefined)
      [] g = "true" -> Lexeme("lit", g, Bool(TRUE))
      [] g = "false" -> Lexeme("lit", g, Bool(FALSE))
      [] g = "Math.round" -> Lexeme("round", g, Undefined)
      [] IsDigits(g) -> Lexeme("lit", g, I(DigitsValue(g)))
      [] OTHER -> Lexeme("id", g, Undefined)

\* The text of a negative number is a "-" and the literal of its magnitude.
SubLexemes(it) ==
    IF it.v.k \in {"num", "inf"} /\ it.v.n < 0
    THEN <<Lexeme("op", "-", Undefined), Lexeme("lit", it.g, NumNeg(it.v))>>
    ELSE IF it.v.k \in {"nan", "inf", "undef"} THEN <<Lexeme("name", it.g, it.v)>>
    ELSE <<Lexeme("lit", it.g, it.v)>>

IsOpAt(str, p) == p <= Len(str) /\ ~str[p].sub /\ IsOp(str[p].g)

RECURSIVE Lex(_, _)
Lex(str, p) ==
    IF p > Len(str) THEN <<>>
    ELSE LET it == str[p]
         IN  IF it.sub THEN SubLexemes(it) \o Lex(str, p + 1)
             ELSE IF it.g \in OtherChars THEN Lex(str, p + 1)
             ELSE IF it.g = Quote
                  THEN LET q == CloseQuote(str, p + 1)
                       IN  IF q = 0 THEN <<Lexeme("bad", it.g, Undefined)>>
                           ELSE <<Lexeme("lit", "", Str(FlatItems(str, p + 1, q - 1)))>>
                                \o Lex(str, q + 1)
             ELSE IF IsOp(it.g)
                  THEN IF IsOpAt(str, p + 1) /\ IsOpAt(str, p + 2)
                          /\ FlatItems(str, p, p + 2) \in JsOps3
                       THEN <<Lexeme("op", FlatItems(str, p, p + 2), Undefined)>>
                            \o Lex(str, p + 3)
                       ELSE IF IsOpAt(str, p + 1) /\ FlatItems(str, p, p + 1) \in JsOps2
                       THEN <<Lexeme("op", FlatItems(str, p, p + 1), Undefined)>>
                            \o Lex(str, p + 2)
                       ELSE <<Lexeme("op", it.g, Undefined)>> \o Lex(str, p + 1)
             ELSE IF it.g \in PunctChars \cup {":"}
                  THEN <<Lexeme("punct", it.g, Undefined)>> \o Lex(str, p + 1)
             ELSE <<WordLexeme(it.g)>> \o Lex(str, p + 1)

\* Math.round: the integer nearest to x, halves rounded up.
MathRound(a) ==
    LET x == ToNumber(a)
    IN  IF x.k = "num" THEN I((2 * x.n + x.d) \div (2 * x.d)) ELSE x

Fail == [ok |-> FALSE, v |-> Undefined]
Ok(v) == [ok |-> TRUE, v |-> v]
IsLx(lx, p, t, gs) == p >= 1 /\ p <= Len(lx) /\ lx[p].t = t /\ lx[p].g \in gs

Binary(op, a, b) ==
    CASE op = "*" -> JsMul(a, b)
      [] op = "/" -> JsDiv(a, b)
      [] op = "+" -> JsAdd(a, b)
      [] op = "-" -> JsSub(a, b)
      [] op = "<" -> JsLt(a, b)
      [] op = ">" -> JsGt(a, b)
      [] op = "<=" -> JsLe(a, b)
      [] op = ">=" -> JsGe(a, b)
      [] op = "==" -> JsEq(a, b)
      [] op = "!=" -> JsNot(JsEq(a, b))
      [] op = "===" -> JsStrictEq(a, b)
      [] op = "!==" -> JsNot(JsStrictEq(a, b))
      [] OTHER -> b

\* The binary operators of the precedence levels, lowest first; level 0 is
\* the comma.
LevelOps(level) ==
    CASE level = 1 -> {"==", "!=", "===", "!=="}
      [] level = 2 -> {"<", ">", "<=", ">="}
      [] level = 3 -> {"+", "-"}
      [] OTHER -> {"*", "/"}

\* The parentheses open before lx[p], counted from lo.
Depth(lx, lo, p) ==
    Cardinality({j \in lo..(p - 1) : IsLx(lx, j, "punct", {"("})})
    - Cardinality({j \in lo..(p - 1) : IsLx(lx, j, "punct", {")"})})

\* An operator that follows lx[p] is a binary one.
EndsOperand(lx, p) == lx[p].t \in {"lit", "name"} \/ IsLx(lx, p, "punct", {")"})

\* Where lx[lo..hi] has a binary operator of the level outside parentheses.
Splits(lx, lo, hi, level) ==
    {p \in (lo + 1)..(hi - 1) :
        /\ Depth(lx, lo, p) = 0
        /\ EndsOperand(lx, p - 1)
        /\ IF level = 0 THEN IsLx(lx, p, "punct", {","})
           ELSE IsLx(lx, p, "op", LevelOps(level))}

Max(S) == CHOOSE x \in S : \A y \in S : y <= x
Min(S) == CHOOSE x \in S : \A y \in S : x <= y

\* The operator applied last in lx[lo..hi]: the rightmost one of the lowest
\* level (the operators are left-associative), or 0.
SplitAt(lx, lo, hi) ==
    IF Splits(lx, lo, hi, 0) # {} THEN Max(Splits(lx, lo, hi, 0))
    ELSE IF Splits(lx, lo, hi, 1) # {} THEN Max(Splits(lx, lo, hi, 1))
    ELSE IF Splits(lx, lo, hi, 2) # {} THEN Max(Splits(lx, lo, hi, 2))
    ELSE IF Splits(lx, lo, hi, 3) # {} THEN Max(Splits(lx, lo, hi, 3))
    ELSE IF Splits(lx, lo, hi, 4) # {} THEN Max(Splits(lx, lo, hi, 4))
    ELSE 0

\* lx[lo] is a "(" that lx[hi] closes.
Encloses(lx, lo, hi) ==
    /\ IsLx(lx, lo, "punct", {"("})
    /\ IsLx(lx, hi, "punct", {")"})
    /\ Depth(lx, lo, hi + 1) = 0
    /\ \A j \in (lo + 1)..hi : Depth(lx, lo, j) > 0

Combine(op, a, b) == IF a.ok /\ b.ok THEN Ok(Binary(op, a.v, b.v)) ELSE Fail

Unary(op, a) ==
    IF ~a.ok THEN Fail
    ELSE IF op = "-" THEN Ok(NumNeg(ToNumber(a.v)))
    ELSE IF op = "+" THEN Ok(ToNumber(a.v))
    ELSE Ok(JsNot(a.v))

\* Math.round(first, rest...): the further arguments are evaluated and dropped.
Round(first, rest) == IF first.ok /\ rest.ok THEN Ok(MathRound(first.v)) ELSE Fail

\* The value of the expression lx[lo..hi], or Fail where it is none.
RECURSIVE Evaluate(_, _, _)
Evaluate(lx, lo, hi) ==
    IF lo > hi THEN Fail
    ELSE IF SplitAt(lx, lo, hi) # 0
         THEN Combine(lx[SplitAt(lx, lo, hi)].g,
                      Evaluate(lx, lo, SplitAt(lx, lo, hi) - 1),
                      Evaluate(lx, SplitAt(lx, lo, hi) + 1, hi))
    ELSE IF IsLx(lx, lo, "op", {"-", "+", "!"})
         THEN Unary(lx[lo].g, Evaluate(lx, lo + 1, hi))
    ELSE IF lo = hi
         THEN IF lx[lo].t \in {"lit", "name"} THEN Ok(lx[lo].v) ELSE Fail
    ELSE IF Encloses(lx, lo, hi) THEN Evaluate(lx, lo + 1, hi - 1)
    ELSE IF lx[lo].t = "round" /\ Encloses(lx, lo + 1, hi)
         THEN IF lo + 2 = hi THEN Ok(NaN)
              ELSE IF Splits(lx, lo + 2, hi - 1, 0) = {}
              THEN Round(Evaluate(lx, lo + 2, hi - 1), Ok(Undefined))
              ELSE Round(Evaluate(lx, lo + 2, Min(Splits(lx, lo + 2, hi - 1, 0)) - 1),
                         Evaluate(lx, Min(Splits(lx, lo + 2, hi - 1, 0)) + 1, hi - 1))
    ELSE Fail

\* The statement labels `name :` a program starts with: the position after them.
RECURSIVE Labels(_, _)
Labels(lx, p) ==
    IF p < Len(lx) /\ lx[p].t \in {"id", "name"} /\ IsLx(lx, p + 1, "punct", {":"})
    THEN Labels(lx, p + 2)
    ELSE p

\* try { return eval(str); } catch { return 0; }
Caught(r) == IF r.ok THEN r.v ELSE I(0)

\* A program: labels, then one expression; the empty program is undefined.
Program(lx) ==
    IF lx = <<>> THEN Undefined ELSE Caught(Evaluate(lx, Labels(lx, 1), Len(lx)))

JsEval(str) == Program(Lex(str, 1))

\* The result of eval(tokens) for the substituted text s.
Evaluated(s) ==
    IF s.threw THEN [threw |-> TRUE, v |-> Undefined]
    ELSE [threw |-> FALSE, v |-> JsEval(s.str)]

\* eval(tokens): threw when the RegExp constructor throws (outside the try).
eval(tokens, vs, ph) == Evaluated(Substituted(tokens, vs, ph))

(***************************************************************************)
(* Physics: the fields the VM reads and writes.  getOrbit() is the record  *)
(* orbit; the integration of position and velocity in step is not          *)
(* modelled: a step that moves the vessel leaves some telemetry snapshot   *)
(* of Orbits, and the vessel is landed when its telemetry is PadOrbit.     *)
(* The crashed flag is not modelled.                                       *)
(***************************************************************************)
PadOrbit == [alt |-> I(0), ap |-> I(0), pe |-> I(-600000), eta |-> I(0)]
FlightOrbit == [alt |-> I(5), ap |-> I(7), pe |-> I(-3), eta |-> I(2)]
Orbits == {PadOrbit, FlightOrbit}

\* x || def
OrElse(x, def) == IF Truthy(x) THEN x ELSE def

\* Physics.reset(config)
reset(config) ==
    [massDry |-> NumMul(OrElse(config.mass, I(25)), I(1000)),
     fuelStart |-> OrElse(config.fuel, I(600)),
     thrustMax |-> NumMul(OrElse(config.thrust, I(500)), I(1000)),
     stages |-> IF config.stages.k # "undef" THEN config.stages ELSE I(2),
     fuel |-> OrElse(config.fuel, I(600)),
     throttle |-> I(0),
     steeringTarget |-> I(90),
     orbit |-> PadOrbit]

\* new Physics(): reset({}).
EmptyConfig ==
    [mass |-> Undefined, fuel |-> Undefined, thrust |-> Undefined, stages |-> Undefined]

\* The fuel after Physics.step(dt).
StepFuel(ph, dt) ==
    IF NumLt(I(0), ph.fuel) /\ NumLt(I(0), ToNumber(ph.throttle))
    THEN LET consumption == NumMul(NumMul(ph.throttle, I(2)), dt)
         IN  IF ~NumLt(ph.fuel, consumption) THEN NumAdd(ph.fuel, NumNeg(consumption))
             ELSE I(0)
    ELSE ph.fuel

(***************************************************************************)
(* VM.tick.  A machine state m is the VM and the collaborators during a    *)
(* call: [pc, waitTimer, vars, phys, log, threw, brk] with the history     *)
(* fields batch, hits and wait.                                            *)
(***************************************************************************)
\* A budget of one step more: a faulty variant, which the
\* step-budget property (below) rules out.
StepBudgetWide == 20 + 1

\* The step budget of one tick call.
StepBudget == 20

LogEvent(msg, type, at) == [msg |-> msg, type |-> type, at |-> at]
Emit(m, msg, type, at) == [m EXCEPT !.log = Append(m.log, LogEvent(msg, type, at))]

\* this.vars[target] = val: a new key goes last, a known key keeps its place.
SameKey(a, b) == Flat(a) = Flat(b)
HasVar(vs, key) == \E j \in 1..Len(vs) : SameKey(vs[j].key, key)
SetVar(vs, key, val) ==
    IF HasVar(vs, key)
    THEN [j \in 1..Len(vs) |-> IF SameKey(vs[j].key, key) THEN [vs[j] EXCEPT !.val = val]
                                 ELSE vs[j]]
    ELSE Append(vs, [key |-> key, val |-> val])
GetVar(vs, name) ==
    IF \E j \in 1..Len(vs) : Flat(vs[j].key) = name
    THEN vs[CHOOSE j \in 1..Len(vs) : Flat(vs[j].key) = name].val
    ELSE Undefined

Snapshot(m, at, val) ==
    [at |-> at, val |-> val, pc |-> m.pc, waitTimer |-> m.waitTimer, vars |-> m.vars,
     phys |-> m.phys, nlog |-> Len(m.log)]

\* History: the instruction at `at` was executed and left m.
Done(m, at, val) ==
    [m EXCEPT !.batch = Append(m.batch, Snapshot(m, at, val)),
              !.hits = [m.hits EXCEPT ![at + 1] = @ + 1]]

Advance(m) == [m EXCEPT !.pc = m.pc + 1]

\* A YIELD that does not leave the loop of tick: a faulty variant, which
\* the UNTIL property (below) rules out.
ExecYIELD_NoBreak(m, cmd) == Advance(m)

ExecYIELD(m, cmd) == [Advance(m) EXCEPT !.brk = TRUE]

\* A WAIT that sets the timer one second late: a faulty variant, which
\* the WAIT property (below) rules out.
ExecWAIT_Late(m, cmd) ==
    [Advance(m) EXCEPT !.waitTimer = NumAdd(ToNumber(cmd.time), I(1)), !.brk = TRUE,
                       !.wait = [state |-> "waiting", t |-> cmd.time, idle |-> I(0),
                                 lastDt |-> I(0)]]

ExecWAIT(m, cmd) ==
    [Advance(m) EXCEPT !.waitTimer = cmd.time, !.brk = TRUE,
                       !.wait = [state |-> "waiting", t |-> cmd.time, idle |-> I(0),
                                 lastDt |-> I(0)]]

ExecPRINT(m, cmd, val) == Advance(Emit(m, val, "info", cmd.at))

ExecLOCK(m, cmd, val) ==
    LET t == Flat(cmd.target)
        p1 == IF t = "THROTTLE"
              THEN [m.phys EXCEPT !.throttle = MathMin(MathMax(val, I(0)), I(1))]
              ELSE m.phys
        p2 == IF t = "STEERING" THEN [p1 EXCEPT !.steeringTarget = val] ELSE p1
    IN  Advance([m EXCEPT !.phys = p2])

ExecSET_VAR(m, cmd, val) == Advance([m EXCEPT !.vars = SetVar(m.vars, cmd.target, val)])

\* A STAGE that does not refill the tank: a faulty variant, which the
\* STAGE property (below) rules out.
ExecSTAGE_NoRefuel(m, cmd) ==
    IF NumLt(I(0), ToNumber(m.phys.stages))
    THEN Advance(Emit([m EXCEPT !.phys = [m.phys EXCEPT
                            !.stages = NumAdd(ToNumber(m.phys.stages), I(-1)),
                            !.massDry = NumMul(m.phys.massDry, Num(6, 10))]],
                      Str("STAGED"), "warn", <<>>))
    ELSE Advance(m)

ExecSTAGE(m, cmd) ==
    IF NumLt(I(0), ToNumber(m.phys.stages))
    THEN Advance(Emit([m EXCEPT !.phys = [m.phys EXCEPT
                            !.stages = NumAdd(ToNumber(m.phys.stages), I(-1)),
                            !.fuel = m.phys.fuelStart,
                            !.massDry = NumMul(m.phys.massDry, Num(6, 10))]],
                      Str("STAGED"), "warn", <<>>))
    ELSE Advance(m)

ExecCLEAR(m, cmd) == Advance(Emit(m, Str("CLEAR"), "", <<>>))

ExecJMP(m, cmd) == [m EXCEPT !.pc = cmd.dest]
\* A JMP_FALSE that never jumps: a faulty variant, which the
\* IF / ELSE property (below) rules out.
ExecJMP_FALSE_Through(m, cmd, val) == [m EXCEPT !.pc = m.pc + 1]
ExecJMP_FALSE(m, cmd, val) == [m EXCEPT !.pc = IF Truthy(val) THEN m.pc + 1 ELSE cmd.dest]
\* A JMP_TRUE that always jumps: a faulty variant, which the
\* WAIT UNTIL property (below) rules out.
ExecJMP_TRUE_Always(m, cmd, val) == [m EXCEPT !.pc = cmd.dest]
ExecJMP_TRUE(m, cmd, val) == [m EXCEPT !.pc = IF Truthy(val) THEN cmd.dest ELSE m.pc + 1]

EvalOps == {"PRINT", "LOCK", "SET_VAR", "JMP_FALSE", "JMP_TRUE"}

\* The switch of tick on cmd.op, val being the value of cmd.expr.
Exec(m, cmd, val) ==
    CASE cmd.op = "YIELD" -> ExecYIELD(m, cmd)
      [] cmd.op = "WAIT" -> ExecWAIT(m, cmd)
      [] cmd.op = "PRINT" -> ExecPRINT(m, cmd, val)
      [] cmd.op = "LOCK" -> ExecLOCK(m, cmd, val)
      [] cmd.op = "SET_VAR" -> ExecSET_VAR(m, cmd, val)
      [] cmd.op = "STAGE" -> ExecSTAGE(m, cmd)
      [] cmd.op = "CLEAR" -> ExecCLEAR(m, cmd)
      [] cmd.op = "JMP" -> ExecJMP(m, cmd)
      [] cmd.op = "JMP_FALSE" -> ExecJMP_FALSE(m, cmd, val)
      [] OTHER -> ExecJMP_TRUE(m, cmd, val)

\* The instruction cmd whose expression evaluation ended as e: an exception
\* of eval leaves tick.
ExecWith(m, cmd, e) ==
    IF e.threw THEN [m EXCEPT !.threw = TRUE]
    ELSE Done(Exec(m, cmd, e.v), m.pc, e.v)

\* One pass of the body of the while loop of tick.
ExecOne(m, cmd) ==
    IF cmd.op \in EvalOps THEN ExecWith(m, cmd, eval(cmd.expr, m.vars, m.phys))
    ELSE ExecWith(m, cmd, [threw |-> FALSE, v |-> Undefined])

\* while (steps < 20 && this.pc < this.instructions.length) { ... steps++ }
\* instructions[pc] with pc < 0 is undefined, and reading its op throws.
RECURSIVE ExecLoop(_, _, _)
\* After a pass that left r: break, or the next pass.
ExecNext(ins, r, steps) ==
    IF r.threw \/ r.brk THEN r ELSE ExecLoop(ins, r, steps + 1)

ExecLoop(ins, m, steps) ==
    IF steps < StepBudget /\ m.pc < Len(ins)
    THEN IF m.pc < 0 THEN [m EXCEPT !.threw = TRUE]
         ELSE ExecNext(ins, ExecOne(m, ins[m.pc + 1]), steps)
    ELSE m

(***************************************************************************)
(* The inputs of the model: tick sizes, configurations and scripts.        *)
(***************************************************************************)
\* Bound on the loop calls that find the loaded program running.
MaxTicks == 7

\* dt, in seconds: 0.5, 1 and 1.5.
DtSet == {Num(1, 2), I(1), Num(3, 2)}

\* What resetSim reads from the form (getNum never yields NaN).
DefaultConfig == [mass |-> I(25), fuel |-> I(600), thrust |-> I(500), stages |-> I(2)]
SmallConfig == [mass |-> I(0), fuel |-> I(4), thrust |-> I(500), stages |-> I(2)]
Configs == {DefaultConfig, SmallConfig}

\* The glyphs of a word of a script: the characters of an operator, else
\* the word itself.
Glyphs(w) ==
    CASE w = "==" -> <<"=", "=">>
      [] w = "!=" -> <<"!", "=">>
      [] w = ">=" -> <<">", "=">>
      [] w = "<=" -> <<"<", "=">>
      [] OTHER -> <<w>>

\* The text of words separated by single blanks.
Sp(ws) ==
    Concat([j \in 1..Len(ws) |-> IF j = 1 THEN Glyphs(ws[j]) ELSE <<" ">> \o Glyphs(ws[j])],
           1, Len(ws))

\* The text a, a blank, the text b.
Cat(a, b) == a \o <<" ">> \o b

RECURSIVE Filler(_)
Filler(n) == IF n = 0 THEN <<>> ELSE Cat(Sp(<<"SET", "F", "TO", "0", ".">>), Filler(n - 1))

\* How many statements precede the construct under test, so that the step
\* budget ends the first batch inside it, at each of its instructions.
Pads == {15, 16, 17}

Conds == {<<"1">>, <<"0">>, <<"2">>, <<"0", "/", "0">>, <<"ALTITUDE">>}

IfElseScript(c, pad) ==
    Cat(Sp(<<"SET", "A", "TO", "0", ".", "SET", "B", "TO", "0", ".">>), Filler(pad))
    \o Sp(<<"IF">> \o c \o <<"{", "SET", "A", "TO", "A", "+", "1", ".", "}",
                              "ELSE", "{", "SET", "B", "TO", "B", "+", "1", ".", "}",
                              "SET", "E", "TO", "1", ".">>)

\* IF p { IF q { A } ELSE { B } } ELSE { IF q { C } ELSE { D } }, P and Q
\* being set to p and q before.
NestedScript(p, q) ==
    Sp(<<"SET", "A", "TO", "0", ".", "SET", "B", "TO", "0", ".",
         "SET", "C", "TO", "0", ".", "SET", "D", "TO", "0", ".",
         "SET", "P", "TO", ToString(p), ".", "SET", "Q", "TO", ToString(q), ".",
         "IF", "P", "{",
            "IF", "Q", "{", "SET", "A", "TO", "A", "+", "1", ".", "}",
            "ELSE", "{", "SET", "B", "TO", "B", "+", "1", ".", "}",
         "}", "ELSE", "{",
            "IF", "Q", "{", "SET", "C", "TO", "C", "+", "1", ".", "}",
            "ELSE", "{", "SET", "D", "TO", "D", "+", "1", ".", "}",
         "}", "SET", "E", "TO", "1", ".">>)

\* An IF / ELSE in the body of a loop: reached with X = 0, 1, 2.
LoopIfScript ==
    Sp(<<"SET", "X", "TO", "0", ".", "SET", "A", "TO", "0", ".", "SET", "B", "TO", "0", ".",
         "UNTIL", "X", ">", "2", "{",
            "IF", "X", "==", "1", "{", "SET", "A", "TO", "A", "+", "1", ".", "}",
            "ELSE", "{", "SET", "B", "TO", "B", "+", "1", ".", "}",
            "SET", "X", "TO", "X", "+", "1", ".",
         "}">>)

MaxIter == 3

\* UNTIL X >= n { BODY } with BODY counting in C and long `body` fillers.
UntilScript(n, pad, body) ==
    Cat(Sp(<<"SET", "X", "TO", "0", ".", "SET", "C", "TO", "0", ".">>), Filler(pad))
    \o Cat(Sp(<<"UNTIL", "X", ">=", ToString(n), "{", "SET", "C", "TO", "C", "+", "1", ".">>),
           Filler(body))
    \o Sp(<<"SET", "X", "TO", "X", "+", "1", ".", "}", "SET", "E", "TO", "1", ".">>)

\* n iterations after pad statements, with so many fillers in the body: the
\* last case has a body longer than the step budget.
UntilCases == {<<n, pad, 0>> : n \in 0..MaxIter, pad \in {0, 17}} \cup {<<2, 0, 19>>}

WaitUntilScript(c, pad) ==
    Cat(Sp(<<"LOCK", "THROTTLE", "TO", "1", ".">>), Filler(pad))
    \o Sp(<<"WAIT", "UNTIL">> \o c \o <<".", "SET", "E", "TO", "1", ".">>)

WaitScript(t) ==
    Sp(<<"SET", "A", "TO", "1", ".", "WAIT">> \o t \o <<".", "SET", "E", "TO", "1", ".">>)

StageScript ==
    Sp(<<"LOCK", "THROTTLE", "TO", "1", ".", "WAIT", "1", ".",
         "STAGE", ".", "STAGE", ".", "STAGE", ".">>)

\* One of every statement, a comment and a dropped character.
TourScript ==
    Sp(<<"CLEARSCREEN", ".", "DECLARE", "PARAMETER", "P", ".",
         "PRINT", Quote, "go", Quote, "AT", "(", "0", ",", "1", ")", ".",
         "LOCK", "STEERING", "TO", "HEADING", "(", "90", ",", "20", ")", ".">>)
    \o <<" ", "/", "/", "LOCK", " ", "THROTTLE", " ", "TO", " ", "1", ".", Newline>>
    \o Sp(<<"PRINT", "P", "+", "FUEL", ";", ".", "SET", "P", "TO", "THROTTLE", ".">>)

\* A parameter that is read in the tick of its declaration and after a
\* WAIT, then set.
DeclareScript ==
    Sp(<<"DECLARE", "PARAMETER", "P", ".", "SET", "Q", "TO", "P", "+", "1", ".",
         "WAIT", "1", ".",
         "IF", "P", "{", "SET", "R", "TO", "1", ".", "}",
         "ELSE", "{", "SET", "R", "TO", "2", ".", "}",
         "SET", "P", "TO", "3", ".", "SET", "S", "TO", "P", "+", "1", ".">>)

\* Scripts that end with a block: the jump over it goes to the end of the
\* program.
EndIfScript == Sp(<<"SET", "A", "TO", "0", ".", "IF", "A", "{", "SET", "A", "TO", "1", ".", "}">>)
EndUntilScript == Sp(<<"UNTIL", "1", "{", "STAGE", ".", "}">>)

\* Numeric literals, as glyphs: whole numbers, and numbers with one digit
\* after the point (written without blanks, as in 2.5).
WaitLiterals == {<<"2">>, <<"2", ".", "5">>, <<"0", ".", "5">>}
\* The script WAIT d . for the literal d.
WaitOnly(lit) == <<"WAIT", " ">> \o lit \o <<" ", ".">>

\* SET R TO expr . SET E TO 1 .
EvalScript(expr) ==
    Sp(<<"SET", "R", "TO">> \o expr \o <<".", "SET", "E", "TO", "1", ".">>)

\* The token x:y (one token: no blanks around the colon).
Colon(x, y) == <<x, ":", y>>

\* Expressions that fail or divide by zero, and variable names that are a
\* part of a token.
EvalScripts ==
    {EvalScript(e) : e \in {<<"1", "/", "0">>, <<"1", "+">>, <<"Q">>, <<"(", "1">>}}
    \cup {Sp(<<"SET", "y", "TO", "7", ".", "SET", "R", "TO">>) \o <<" ">> \o Colon("x", "y")
          \o <<" ">> \o Sp(<<".", "SET", "E", "TO", "1", ".">>),
          Sp(<<"SET", "a", "TO", "5", ".", "SET", "X", "TO", "5", ".",
               "SET", "R", "TO", "apple", "+", "X", ".", "SET", "E", "TO", "1", ".">>)}

\* LOCK with values below 0 and not a number, and with an unknown target.
LockScript ==
    Sp(<<"LOCK", "THROTTLE", "TO", "0", "-", "1", ".", "LOCK", "PITCH", "TO", "1", ".",
         "LOCK", "THROTTLE", "TO", "0", "/", "0", ".", "SET", "E", "TO", "1", ".">>)

\* Full throttle asked as 2, and ETA:APOAPSIS read on the pad and in flight.
EtaScript ==
    Sp(<<"LOCK", "THROTTLE", "TO", "2", ".", "WAIT", "1", ".", "SET", "R", "TO">>)
    \o <<" ">> \o Colon("ETA", "APOAPSIS") \o <<" ">>
    \o Sp(<<".", "SET", "E", "TO", "1", ".">>)

\* More STAGE statements than stages.
StagePadScript == Sp(<<"STAGE", ".", "STAGE", ".", "STAGE", ".", "SET", "E", "TO", "1", ".">>)
\* The form field of the stages is read with parseFloat.
HalfStageConfig == [mass |-> I(25), fuel |-> I(600), thrust |-> I(500), stages |-> Num(1, 2)]

\* Scripts that are not statements of the grammar: those that compile ...
OddScripts ==
    {Sp(<<"IF", "1", "{", "STAGE", ".">>),
     Sp(<<"UNTIL", "0", "{", "SET", "X", "TO", "1", ".">>),
     Sp(<<"UNTIL", "1", ".">>), Sp(<<"IF", "1", ".", "IF", "2", "{", "}">>),
     Sp(<<"}", "STAGE", ".", "ELSE", "{", "}">>),
     Sp(<<"LOCK", "THROTTLE", "1", ".">>), Sp(<<"SET", "X", "5", ".", "PRINT", "X", ".">>),
     Sp(<<"SET", "X">>),
     Sp(<<"SET", "(", "TO", "1", ".", "SET", "R", "TO", "2", ".">>)}

\* ... and those that end the compiler with a TypeError.
BadScripts ==
    {Sp(<<"LOCK">>), Sp(<<"SET", "X", "TO", "1", ".", "WAIT">>),
     Sp(<<"PRINT", "1", "AT", "(", "2">>), Sp(<<"DECLARE", "PARAMETER">>)}

\* Scripts that leave the throttle closed, and scripts that open it.
PadScripts ==
    {IfElseScript(c, 0) : c \in Conds}
    \cup {IfElseScript(c, pad) : c \in {<<"1">>, <<"0">>}, pad \in Pads}
    \cup {NestedScript(p, q) : p \in {0, 1}, q \in {0, 1}}
    \cup {LoopIfScript}
    \cup {UntilScript(u[1], u[2], u[3]) : u \in UntilCases}
    \cup {WaitScript(t) : t \in {<<"0">>, <<"1">>, <<"2">>, <<"2", ".", "5">>, <<"X">>}}
    \cup {Filler(25), TourScript, DeclareScript, LockScript, StagePadScript}
    \cup {EndIfScript, EndUntilScript}
    \cup {WaitOnly(lit) : lit \in WaitLiterals}
    \cup EvalScripts
    \cup OddScripts

FlightScripts ==
    {WaitUntilScript(<<"ALTITUDE", ">", "0">>, pad) : pad \in {0, 17, 18}}
    \cup {WaitUntilScript(<<"0">>, 0), StageScript, EtaScript}

Scripts == PadScripts \cup FlightScripts

\* What the RUN button starts: a configuration and a script.  The scripts
\* that burn fuel fly with the small tank.
Launches ==
    {<<DefaultConfig, code>> : code \in PadScripts \cup {Sp(<<"LOCK">>)}}
    \cup {<<SmallConfig, code>> : code \in FlightScripts}
    \cup {<<HalfStageConfig, StagePadScript>>}

\* What run is called with while a program is loaded.
Reloads == {Sp(<<"LOCK">>)}

\* compile(code) of every script of the model, computed once.
Compiled == [code \in Scripts \cup BadScripts \cup Reloads |-> compile(code)]

(***************************************************************************)
(* The state after construction and the handlers.                          *)
(***************************************************************************)
NoWait == [state |-> "none", t |-> I(0), idle |-> I(0), lastDt |-> I(0)]
NotLoaded == [src |-> <<>>, err |-> FALSE, stack |-> <<>>]

\* const physics = new Physics(); const vm = new VM(physics, ...)
Init ==
    /\ instructions = <<>>
    /\ pc = 0
    /\ running = FALSE
    /\ waitTimer = I(0)
    /\ vars = <<>>
    /\ phys = reset(EmptyConfig)
    /\ log = <<>>
    /\ last = "new"
    /\ thrown = FALSE
    /\ loaded = NotLoaded
    /\ ticks = 0
    /\ batch = <<>>
    /\ hits = <<>>
    /\ wait = NoWait

\* VM.run(code): the fields of the VM and the log after it, given the
\* result c of compile(code).
RunVM(c) ==
    IF c.err
    THEN [instructions |-> instructions, pc |-> pc, running |-> running,
          waitTimer |-> waitTimer, vars |-> <<>>,
          log |-> <<LogEvent(Str("Compile Error: "), "err", <<>>)>>]
    ELSE [instructions |-> c.ins, pc |-> 0, running |-> TRUE,
          waitTimer |-> I(0), vars |-> <<>>,
          log |-> <<LogEvent(Str("Program Loaded."), "sys", <<>>)>>]

\* The history after a run; a run that fails leaves the program it found,
\* and ticks goes on counting for it.
RunHistory(code, c) ==
    /\ loaded' = [src |-> code, err |-> c.err, stack |-> c.stack]
    /\ thrown' = FALSE
    /\ batch' = <<>>
    /\ ticks' = IF c.err THEN ticks ELSE 0
    /\ hits' = [j \in 1..Len(instructions') |-> 0]
    /\ wait' = NoWait

\* vm.run(code), called in any state of the VM.
Run(code) ==
    LET c == Compiled[code]
        r == RunVM(c)
    IN  /\ instructions' = r.instructions
        /\ pc' = r.pc
        /\ running' = r.running
        /\ waitTimer' = r.waitTimer
        /\ vars' = r.vars
        /\ log' = r.log
        /\ last' = "run"
        /\ RunHistory(code, c)
        /\ UNCHANGED phys

ResetEvent == LogEvent(Str("Simulation Reset."), "sys", <<>>)

\* resetSim()
BtnReset(config) ==
    /\ phys' = reset(config)
    /\ running' = FALSE
    /\ log' = <<ResetEvent>>
    /\ last' = "reset"
    /\ thrown' = FALSE
    /\ UNCHANGED <<instructions, pc, waitTimer, vars, loaded, ticks, batch, hits, wait>>

\* btn-run: resetSim(); vm.run(code)
BtnRun(config, code) ==
    LET c == Compiled[code]
        r == RunVM(c)
    IN  /\ phys' = reset(config)
        /\ instructions' = r.instructions
        /\ pc' = r.pc
        /\ running' = IF c.err THEN FALSE ELSE r.running
        /\ waitTimer' = r.waitTimer
        /\ vars' = r.vars
        /\ log' = <<ResetEvent>> \o r.log
        /\ last' = "btn-run"
        /\ RunHistory(code, c)

\* btn-stop
BtnStop ==
    /\ running
    /\ running' = FALSE
    /\ log' = <<LogEvent(Str("Aborted by user."), "err", <<>>)>>
    /\ last' = "stop"
    /\ thrown' = FALSE
    /\ UNCHANGED <<instructions, pc, waitTimer, vars, phys, loaded, ticks, batch, hits, wait>>

\* The machine state a tick call starts in.
Machine ==
    [pc |-> pc, waitTimer |-> waitTimer, vars |-> vars, phys |-> phys, log |-> <<>>,
     threw |-> FALSE, brk |-> FALSE, batch |-> <<>>, hits |-> hits, wait |-> wait]

Started == [Machine EXCEPT !.batch = <<Snapshot(Machine, -1, Undefined)>>]

\* An end of program that logs nothing: a faulty variant, which the
\* completion property (below) rules out.
EndCheck_Silent(r) == r

\* if (this.pc >= this.instructions.length) { running = false; log(...) }
EndCheck(r) ==
    IF ~r.threw /\ r.pc >= Len(instructions)
    THEN [Emit(r, Str("Program Ended."), "sys", <<>>) EXCEPT !.brk = FALSE]
    ELSE r

\* A tick that does not look at running: a faulty variant, which the
\* idle-tick property (below) rules out.
tick_NoGate(dt) ==
    IF NumLt(I(0), ToNumber(waitTimer))
    THEN [Started EXCEPT !.waitTimer = NumAdd(waitTimer, NumNeg(dt)),
                         !.wait = IF wait.state = "waiting"
                                  THEN [wait EXCEPT !.idle = NumAdd(@, dt), !.lastDt = dt]
                                  ELSE wait]
    ELSE EndCheck(ExecLoop(instructions,
                           [Started EXCEPT !.wait = IF wait.state = "waiting"
                                                    THEN [wait EXCEPT !.state = "resumed"]
                                                    ELSE wait],
                           0))

\* A tick that decrements the timer and goes on to the instructions: a
\* faulty variant, which the waiting-tick property (below) rules out.
tick_FallThrough(dt) ==
    IF ~running THEN Started
    ELSE EndCheck(ExecLoop(instructions,
                           [Started EXCEPT !.waitTimer =
                                               IF NumLt(I(0), ToNumber(waitTimer))
                                               THEN NumAdd(waitTimer, NumNeg(dt))
                                               ELSE waitTimer],
                           0))

\* The machine state a tick call ends in.
tick(dt) ==
    IF ~running THEN Started
    ELSE IF NumLt(I(0), ToNumber(waitTimer))
    THEN [Started EXCEPT !.waitTimer = NumAdd(waitTimer, NumNeg(dt)),
                         !.wait = IF wait.state = "waiting"
                                  THEN [wait EXCEPT !.idle = NumAdd(@, dt), !.lastDt = dt]
                                  ELSE wait]
    ELSE EndCheck(ExecLoop(instructions,
                           [Started EXCEPT !.wait = IF wait.state = "waiting"
                                                    THEN [wait EXCEPT !.state = "resumed"]
                                                    ELSE wait],
                           0))

\* Whether that call found the end of the program.
Ended(r) ==
    /\ running /\ ~NumLt(I(0), ToNumber(waitTimer))
    /\ ~r.threw /\ r.pc >= Len(instructions)

\* if (!this.landed || this.throttle > 0) { integrate position and velocity }
step(ph, dt, orbit) ==
    [ph EXCEPT !.fuel = StepFuel(ph, dt),
               !.orbit = IF ph.orbit # PadOrbit \/ NumLt(I(0), ToNumber(ph.throttle))
                         THEN orbit ELSE ph.orbit]

\* The state after a loop() whose tick call ended in r.
LoopEnd(r, dt, orbit) ==
    /\ pc' = r.pc
    /\ waitTimer' = r.waitTimer
    /\ vars' = r.vars
    /\ phys' = IF r.threw THEN r.phys ELSE step(r.phys, dt, orbit)
    /\ log' = r.log
    /\ running' = (running /\ ~r.threw /\ ~Ended(r))
    /\ thrown' = r.threw
    /\ batch' = r.batch
    /\ hits' = r.hits
    /\ wait' = r.wait

\* loop(): try { vm.tick(dt); physics.step(dt) } catch { vm.running = false }.
\* An exception that leaves tick skips the step.
Loop(dt, orbit) ==
    /\ running => ticks < MaxTicks
    /\ LoopEnd(tick(dt), dt, orbit)
    /\ ticks' = IF running THEN ticks + 1 ELSE ticks
    /\ last' = "loop"
    /\ UNCHANGED <<instructions, loaded>>

Next ==
    \/ \E code \in Reloads : Run(code)
    \/ \E l \in Launches : BtnRun(l[1], l[2])
    \/ BtnReset(DefaultConfig)
    \/ BtnStop
    \/ \E dt \in DtSet, orbit \in Orbits : Loop(dt, orbit)

Spec == Init /\ [][Next]_allvars

\* The compiler alone: run called with every script, one after another.
NextCompile == \E code \in Scripts \cup BadScripts : Run(code)

SpecCompile == Init /\ [][NextCompile]_allvars

(***************************************************************************)
(* Properties.  Instruction indices are those of the code (from 0);        *)
(* instructions[j + 1] is the instruction at index j.                      *)
(***************************************************************************)
\* A program is loaded, and no failed run call has cleared vars under it.
Intact == ~loaded.err /\ Len(instructions) > 0
AtEnd == Intact /\ pc >= Len(instructions)
InstrAt(j) == instructions[j + 1]
HitsAt(j) == hits[j + 1]
\* The instructions executed by the last tick call, with the state each left.
Executed == {k \in 2..Len(batch) : TRUE}
V(name) == GetVar(vars, name)

\* The JMP_FALSE at index i belongs to an IF with an ELSE: the instruction
\* before its destination is the forward JMP that ELSE emits.  Both bodies
\* are not empty, and no loop starts at the first instruction of either.
IsIfElse(i) ==
    /\ i \in 0..(Len(instructions) - 1)
    /\ InstrAt(i).op = "JMP_FALSE"
    /\ InstrAt(i).dest \in (i + 3)..(Len(instructions) - 1)
    /\ InstrAt(InstrAt(i).dest - 1).op = "JMP"
    /\ InstrAt(InstrAt(i).dest - 1).dest > InstrAt(i).dest
    /\ \A j \in 0..(Len(instructions) - 1) :
          InstrAt(j).op = "JMP" /\ InstrAt(j).dest <= j
          => InstrAt(j).dest \notin {i + 1, InstrAt(i).dest}
ThenStart(i) == i + 1
ElseStart(i) == InstrAt(i).dest

IfElseScripts ==
    {IfElseScript(c, 0) : c \in Conds}
    \cup {IfElseScript(c, pad) : c \in {<<"1">>, <<"0">>}, pad \in Pads}
NestedScripts == {NestedScript(p, q) : p \in {0, 1}, q \in {0, 1}}

\* Every time an IF with an ELSE was reached, one body was entered or is
\* about to be: its test was executed as often as the first instructions of
\* its two bodies together, counting the one pc stands at.
C1_OneBodyPerTest ==
    Intact =>
    \A i \in 0..(Len(instructions) - 1) :
        IsIfElse(i) =>
        HitsAt(i) = HitsAt(ThenStart(i)) + HitsAt(ElseStart(i))
                    + (IF pc \in {ThenStart(i), ElseStart(i)} THEN 1 ELSE 0)

\* The counters of the bodies when the program has ended: one body ran in
\* IF c { A } ELSE { B } and in the nested IFs, and in the loop the IF was
\* reached three times, with A once (X = 1) and B twice.
C1_Counters ==
    AtEnd =>
    /\ loaded.src \in IfElseScripts
       => <<V("A"), V("B")>> \in {<<I(1), I(0)>>, <<I(0), I(1)>>}
    /\ \A p \in {0, 1}, q \in {0, 1} :
          loaded.src = NestedScript(p, q)
          => <<V("A"), V("B"), V("C"), V("D")>> =
             <<I(p * q), I(p * (1 - q)), I((1 - p) * q), I((1 - p) * (1 - q))>>
    /\ loaded.src = LoopIfScript => V("A") = I(1) /\ V("B") = I(2)

IsZero(v) == v.k = "num" /\ v.n = 0

IsUntil(i) ==
    /\ i \in 0..(Len(instructions) - 1)
    /\ InstrAt(i).op = "JMP_TRUE"
    /\ InstrAt(i).dest \in (i + 4)..Len(instructions)
    /\ InstrAt(InstrAt(i).dest - 1).op = "JMP"
    /\ InstrAt(InstrAt(i).dest - 1).dest = i
    /\ InstrAt(InstrAt(i).dest - 2).op = "YIELD"
BodyStart(i) == i + 1
YieldOf(i) == InstrAt(i).dest - 2
AfterLoop(i) == InstrAt(i).dest

\* C2: UNTIL cond { BODY }, cond becoming true after N executions of BODY
\* (N >= 0), executes BODY exactly N times; the batch of a tick ends at the
\* YIELD after each execution, so that a tick runs at most one iteration;
\* and when cond is true the VM goes on at the instruction after the loop.
C2_UntilLoop ==
    Intact =>
    /\ \A i \in 0..(Len(instructions) - 1) :
          IsUntil(i) =>
          /\ Cardinality({k \in Executed : batch[k].at = BodyStart(i)}) <= 1
          /\ HitsAt(YieldOf(i)) =
                HitsAt(BodyStart(i)) - (IF pc \in (i + 2)..YieldOf(i) THEN 1 ELSE 0)
          /\ \A k \in Executed :
                /\ batch[k].at = YieldOf(i) => k = Len(batch)
                /\ batch[k].at = i =>
                      batch[k].pc = IF Truthy(batch[k].val) THEN AfterLoop(i)
                                    ELSE BodyStart(i)
          /\ \A u \in UntilCases :
                loaded.src = UntilScript(u[1], u[2], u[3]) =>
                /\ HitsAt(BodyStart(i)) <= u[1]
                /\ AtEnd => /\ HitsAt(BodyStart(i)) = u[1]
                            /\ HitsAt(YieldOf(i)) = u[1]
                            /\ HitsAt(i) = u[1] + 1
                            /\ HitsAt(AfterLoop(i)) = 1
                            /\ V("C") = I(u[1]) /\ V("E") = I(1)

\* A loop of two iterations whose body is longer than the step budget has
\* ended: each iteration took two ticks.
C2_Witness ==
    /\ AtEnd /\ ticks >= 5
    /\ loaded.src = UntilScript(2, 0, 19)
    /\ V("C") = I(2) /\ V("E") = I(1)

\* The JMP_TRUE at index i is the test of a WAIT UNTIL: JMP_TRUE(i + 3),
\* YIELD, JMP(i).
IsWaitUntil(i) ==
    /\ i \in 0..(Len(instructions) - 3)
    /\ InstrAt(i).op = "JMP_TRUE" /\ InstrAt(i).dest = i + 3
    /\ InstrAt(i + 1).op = "YIELD"
    /\ InstrAt(i + 2).op = "JMP" /\ InstrAt(i + 2).dest = i
\* The last tick call tested the condition at i and found it false.
FoundFalse(i) == \E k \in Executed : batch[k].at = i /\ ~Truthy(batch[k].val)
\* What an instruction can change besides pc.
Effects(snap) == <<snap.vars, snap.phys, snap.waitTimer, snap.nlog>>

Positive(v) == v.k = "num" /\ v.n > 0
Minus(a, b) == NumAdd(a, NumNeg(b))

\* C4 (as the code has it): after WAIT t (t > 0) the ticks that pass
\* without executing an instruction are the fewest whose dt add up to t or
\* more: their sum is at least t, and less than t without the last of them.
\* While the VM waits the timer holds what is left of t, and the
\* instruction after the WAIT has not been executed.
C4_WaitAtLeast ==
    (Intact /\ Positive(wait.t)) =>
    /\ wait.state = "waiting" =>
          /\ waitTimer = Minus(wait.t, wait.idle)
          /\ NumLt(Minus(wait.idle, wait.lastDt), wait.t)
          /\ \A i \in 0..(Len(instructions) - 2) :
                InstrAt(i).op = "WAIT" /\ pc = i + 1 => HitsAt(i + 1) = 0
    /\ wait.state = "resumed" =>
          /\ ~NumLt(wait.idle, wait.t)
          /\ NumLt(Minus(wait.idle, wait.lastDt), wait.t)

\* WAIT 2 under ticks of 1.5 s: the program went on after 3 s.
C4_Witness ==
    /\ Intact /\ loaded.src = WaitScript(<<"2">>)
    /\ wait.state = "resumed" /\ wait.t = I(2) /\ wait.idle = I(3)
    /\ V("E") = I(1)

\* C4 as stated: the dt of the ticks that pass without executing an
\* instruction add up to exactly t.
C4_WaitExactly ==
    (Intact /\ Positive(wait.t) /\ wait.state = "resumed") => wait.idle = wait.t

\* C5: in every reachable state of the VM and for every program, one call
\* of tick executes at most 20 instructions, also when the program has no
\* YIELD and no WAIT.
C5_AtMostTwentyPerTick == Cardinality(Executed) <= 20

\* The first tick of a chain of 25 SET statements: 20 were executed, the
\* program is still running at the 21st.
C5_Witness ==
    /\ Intact /\ loaded.src = Filler(25) /\ last = "loop"
    /\ Cardinality(Executed) = 20 /\ pc = 20 /\ running
    /\ \A k \in Executed : InstrAt(batch[k].at).op = "SET_VAR"

\* C6: whenever run is called with a script whose compilation raises an
\* error, in any state of the VM, the error does not leave run, the message
\* goes to the log sink and the VM is not running afterwards.
C6_FailedRunStops ==
    (last = "run" /\ loaded.err) =>
    /\ ~thrown
    /\ \E j \in 1..Len(log) : log[j].type = "err"
    /\ ~running

\* C7: in every program that compile returns, every JMP, JMP_TRUE and
\* JMP_FALSE has a destination in [0, len]; no -1 is left.
C7_JumpsInRange ==
    \A j \in 1..Len(instructions) :
        instructions[j].op \in {"JMP", "JMP_TRUE", "JMP_FALSE"}
        => instructions[j].dest \in 0..Len(instructions)

(***************************************************************************)
(* The script grammar of the specification, over the token texts:          *)
(*   stmt := PRINT expr [AT ( expr , expr )] . | LOCK IDENT TO expr .      *)
(*         | SET IDENT TO expr . | DECLARE PARAMETER IDENT .               *)
(*         | WAIT (number | UNTIL expr) . | STAGE . | CLEARSCREEN .        *)
(*         | IF expr { stmt* } [ELSE { stmt* }] | UNTIL expr { stmt* }     *)
(* The tokens are cut into pieces, each ended by ".", "{" or "}".          *)
(***************************************************************************)
Words(code) == LET t == tokenize(code) IN [j \in 1..Len(t) |-> Flat(t[j].val)]
Delims == {".", "{", "}"}
Count(w, i, g) == Cardinality({j \in 1..i : w[j] = g})
\* The number of blocks open after token i.
Level(w, i) == Count(w, i, "{") - Count(w, i, "}")
Balanced(w) == Level(w, Len(w)) = 0 /\ \A i \in 1..Len(w) : Level(w, i) >= 0
PieceStart(w, i) ==
    IF \E j \in 1..(i - 1) : w[j] \in Delims
    THEN 1 + CHOOSE j \in 1..(i - 1) :
                 w[j] \in Delims /\ \A m \in (j + 1)..(i - 1) : w[m] \notin Delims
    ELSE 1
Piece(w, i) == SubSeq(w, PieceStart(w, i), i - 1)
\* The "{" that the "}" at i closes; only where the braces are balanced.
OpenOf(w, i) ==
    CHOOSE q \in 1..(i - 1) :
        /\ w[q] = "{" /\ Level(w, q) = Level(w, i) + 1
        /\ \A m \in (q + 1)..(i - 1) : Level(w, m) > Level(w, i)
IsExpr(e) == e # <<>> /\ \A j \in 1..Len(e) : e[j] \notin Keywords \cup Delims
\* A name: not a keyword, a mark, an operator or a number.
IsIdent(g) ==
    /\ g \notin Keywords \cup Delims \cup OpChars \cup PunctChars
    /\ g \notin {"==", "!=", ">=", "<="}
    /\ ~IsDigits(g)
IsAtClause(c) ==
    /\ Len(c) >= 5 /\ c[1] = "(" /\ c[Len(c)] = ")"
    /\ \E m \in 3..(Len(c) - 2) :
          c[m] = "," /\ IsExpr(SubSeq(c, 2, m - 1)) /\ IsExpr(SubSeq(c, m + 1, Len(c) - 1))
IsPrint(p) ==
    /\ Len(p) >= 2 /\ p[1] = "PRINT"
    /\ \/ IsExpr(Tail(p))
       \/ \E a \in 3..Len(p) :
             p[a] = "AT" /\ IsExpr(SubSeq(p, 2, a - 1)) /\ IsAtClause(SubSeq(p, a + 1, Len(p)))
\* A piece ended by ".".
IsSimple(p) ==
    \/ p \in {<<"STAGE">>, <<"CLEARSCREEN">>}
    \/ Len(p) = 3 /\ p[1] = "DECLARE" /\ p[2] = "PARAMETER" /\ IsIdent(p[3])
    \/ Len(p) = 2 /\ p[1] = "WAIT" /\ IsDigits(p[2])
    \/ Len(p) >= 3 /\ p[1] = "WAIT" /\ p[2] = "UNTIL" /\ IsExpr(SubSeq(p, 3, Len(p)))
    \/ Len(p) >= 4 /\ p[1] \in {"LOCK", "SET"} /\ IsIdent(p[2]) /\ p[3] = "TO"
                   /\ IsExpr(SubSeq(p, 4, Len(p)))
    \/ IsPrint(p)
\* The piece ended by the "{" at i: ELSE follows the "}" of an IF.
IsBlockHead(w, i) ==
    \/ Len(Piece(w, i)) >= 2 /\ Piece(w, i)[1] \in {"IF", "UNTIL"} /\ IsExpr(Tail(Piece(w, i)))
    \/ /\ Piece(w, i) = <<"ELSE">> /\ i >= 3 /\ w[i - 2] = "}"
       /\ Piece(w, OpenOf(w, i - 2))[1] = "IF"
Conforms(w) ==
    /\ Balanced(w)
    /\ w # <<>> => w[Len(w)] \in {".", "}"}
    /\ \A i \in 1..Len(w) :
          /\ w[i] = "." => IsSimple(Piece(w, i))
          /\ w[i] = "{" => IsBlockHead(w, i)
          /\ w[i] = "}" => Piece(w, i) = <<>>

AllScripts == Scripts \cup BadScripts \cup Reloads
ScriptWords == [code \in AllScripts |-> Words(code)]
\* The scripts of the model that are programs of the grammar, and those
\* whose braces are balanced.
Conforming == {code \in AllScripts : Conforms(ScriptWords[code])}
BraceBalanced == {code \in AllScripts : Balanced(ScriptWords[code])}

StagedAt(k) ==
    /\ k \in Executed
    /\ InstrAt(batch[k].at).op = "STAGE"
    /\ Positive(batch[k - 1].phys.stages)

\* C9: a STAGE executed with remainingStages = n > 0 leaves n - 1 stages,
\* sets fuel to the configured starting fuel, multiplies the dry mass by
\* 0.6 and advances pc by 1.
C9_Stage ==
    \A k \in Executed :
        StagedAt(k) =>
        /\ batch[k].phys.stages = Minus(batch[k - 1].phys.stages, I(1))
        /\ batch[k].phys.fuel = batch[k - 1].phys.fuelStart
        /\ batch[k].phys.fuelStart = batch[k - 1].phys.fuelStart
        /\ batch[k].phys.massDry = NumMul(batch[k - 1].phys.massDry, Num(6, 10))
        /\ batch[k].pc = batch[k - 1].pc + 1

\* The first STAGE of a flight with two stages and a tank of 4, after a
\* second or more of full throttle has burnt fuel.
C9_Witness ==
    /\ Intact /\ loaded.src = StageScript /\ last = "loop"
    /\ \E k \in Executed :
          /\ StagedAt(k)
          /\ batch[k - 1].phys.stages = I(2) /\ batch[k].phys.stages = I(1)
          /\ NumLt(batch[k - 1].phys.fuel, I(4)) /\ batch[k].phys.fuel = I(4)
          /\ batch[k].phys.massDry = NumMul(batch[k - 1].phys.massDry, Num(3, 5))

\* Statements whose operand tokens are absent: a LOCK or SET whose target is
\* not followed by TO, and statements cut off by the end of the text.
MissingOperands ==
    {Sp(<<"LOCK", "THROTTLE", "1", ".">>), Sp(<<"SET", "X", "5", ".", "PRINT", "X", ".">>),
     Sp(<<"SET", "X">>)} \cup BadScripts

\* C10: compiling a statement whose expected operand tokens are absent
\* fails with a compile error instead of returning a program.
C10_MissingOperandRejected ==
    (last = "run" /\ loaded.src \in MissingOperands) => loaded.err

(***************************************************************************)
(* The evaluator.                                                          *)
(***************************************************************************)
\* The words of the expression of the instruction at index j.
ExprAt(j) == [n \in 1..Len(InstrAt(j).expr) |-> Flat(InstrAt(j).expr[n])]

\* Expressions whose evaluation fails: a division by zero, an expression cut
\* short or with an open parenthesis, and a name (Q) that no script sets.
DividesByZero(e) == Len(e) = 3 /\ e[2] = "/" /\ e[3] = "0"
Malformed == {<<"1", "+">>, <<"(", "1">>}
Unresolved == {<<"Q">>}
Fails(e) == DividesByZero(e) \/ e \in Malformed \cup Unresolved

\* The last tick call was left by an exception of eval.
EvalRaised ==
    /\ last = "loop" /\ thrown
    /\ pc \in 0..(Len(instructions) - 1)
    /\ InstrAt(pc).op \in EvalOps

\* C11: the evaluator never raises, and the value of an expression whose
\* evaluation fails (division by zero, malformed expression, unresolved
\* symbol) is 0; a SET of such an expression goes on to the next instruction.
C11_FailedEvalIsZero ==
    /\ ~EvalRaised
    /\ last = "loop" =>
          \A k \in Executed :
             (InstrAt(batch[k].at).op \in EvalOps /\ Fails(ExprAt(batch[k].at)))
             => /\ batch[k].val = I(0)
                /\ InstrAt(batch[k].at).op = "SET_VAR" => batch[k].pc = batch[k].at + 1

\* The glyphs of a text of items.
Text(str) == [j \in 1..Len(str) |-> str[j].g]

\* The replacement of the variables of vs in the tokens of an expression,
\* token by token: a token that is the name of a variable becomes its
\* value, and every other token stays as it is.
TokenWise(tokens, vs) ==
    Join([n \in 1..Len(tokens) |->
             IF HasVar(vs, tokens[n])
             THEN <<NumStr(vs[CHOOSE j \in 1..Len(vs) : SameKey(vs[j].key, tokens[n])].val)>>
             ELSE tokens[n]])

\* The expression of the instruction that left batch[k] names no telemetry:
\* the variable loop of eval starts from the joined tokens.
NoTelemetry(k) ==
    Text(Substituted(InstrAt(batch[k].at).expr, <<>>, batch[k - 1].phys).str)
        = Text(Join(InstrAt(batch[k].at).expr))

\* C12: the variable loop of eval replaces a name only where the name is an
\* entire token of the expression: the text it leaves is the token-wise
\* replacement (so that `a` inside `apple` and `x` or `y` inside `x:y` stay).
C12_WholeTokenOnly ==
    last = "loop" =>
       \A k \in Executed :
          (InstrAt(batch[k].at).op \in EvalOps /\ NoTelemetry(k))
          => LET e == InstrAt(batch[k].at).expr
                 s == ReplaceVars(Join(e), batch[k - 1].vars, 1)
             IN  ~s.threw => Text(s.str) = Text(TokenWise(e, batch[k - 1].vars))

(***************************************************************************)
(* DECLARE PARAMETER.                                                      *)
(***************************************************************************)
\* The index of the instruction of DECLARE PARAMETER P in a script, or -1.
DeclareIndex(code) ==
    IF code = DeclareScript THEN 0 ELSE IF code = TourScript THEN 1 ELSE -1

\* The instruction at index j is a SET_VAR of P, and not that of the DECLARE.
SetsP(j) ==
    /\ InstrAt(j).op = "SET_VAR" /\ Flat(InstrAt(j).target) = "P"
    /\ j # DeclareIndex(loaded.src)

\* The tokens of an expression with 0 in the place of the token P.
ZeroForP(tokens) ==
    [n \in 1..Len(tokens) |-> IF Flat(tokens[n]) = "P" THEN <<"0">> ELSE tokens[n]]

\* C13: once DECLARE PARAMETER P has been executed and as long as no SET P
\* has been, the variables map P to 0, and every expression that reads P
\* has the value it has with 0 in the place of P.
C13_DeclaredIsZero ==
    (Intact /\ DeclareIndex(loaded.src) >= 0) =>
       /\ (/\ HitsAt(DeclareIndex(loaded.src)) > 0
           /\ \A j \in 0..(Len(instructions) - 1) : SetsP(j) => HitsAt(j) = 0)
          => V("P") = I(0)
       /\ last = "loop" =>
             \A k \in Executed :
                /\ batch[k].at = DeclareIndex(loaded.src)
                   => GetVar(batch[k].vars, "P") = I(0)
                /\ (GetVar(batch[k - 1].vars, "P") = I(0) /\ ~SetsP(batch[k].at)
                    /\ batch[k].at # DeclareIndex(loaded.src))
                   => /\ GetVar(batch[k].vars, "P") = I(0)
                      /\ InstrAt(batch[k].at).op \in EvalOps
                         => batch[k].val = eval(ZeroForP(InstrAt(batch[k].at).expr),
                                                batch[k - 1].vars, batch[k - 1].phys).v

\* The IF of DeclareScript reads P in a later tick than the DECLARE, finds 0
\* and jumps to the ELSE body.
C13_Witness ==
    /\ Intact /\ loaded.src = DeclareScript /\ last = "loop"
    /\ HitsAt(0) = 1 /\ V("Q") = I(1)
    /\ \E k \in Executed :
          /\ batch[k].at = 3 /\ batch[k].val = I(0) /\ batch[k].pc = 6
          /\ GetVar(batch[k].vars, "P") = I(0)

(***************************************************************************)
(* The gates of tick.                                                      *)
(***************************************************************************)
\* C14: a tick call while running is false is a no-op: pc, waitTimer and
\* vars stay, nothing is logged, no instruction is executed, and the
\* physics fields are those the step that follows the call makes of the
\* fields before the call (throttle, steering target, stages and dry mass
\* among them stay).
C14_IdleTickNoOp ==
    [][(~running /\ last' = "loop")
       => /\ pc' = pc /\ waitTimer' = waitTimer /\ vars' = vars
          /\ log' = <<>> /\ Len(batch') = 1 /\ hits' = hits
          /\ ~running' /\ ~thrown'
          /\ \E dt \in DtSet, orbit \in Orbits : phys' = step(phys, dt, orbit)
          /\ phys'.throttle = phys.throttle /\ phys'.steeringTarget = phys.steeringTarget
          /\ phys'.stages = phys.stages /\ phys'.massDry = phys.massDry
          /\ phys'.fuelStart = phys.fuelStart]_allvars

\* A tick of a program stopped before its end: nothing was executed.
C14_Witness ==
    /\ Intact /\ last = "loop" /\ ~running /\ ~thrown
    /\ pc > 0 /\ pc < Len(instructions)
    /\ Len(batch) = 1 /\ log = <<>>

(***************************************************************************)
(* LOCK.                                                                   *)
(***************************************************************************)
\* A number of the interval [0, 1].
InUnit(v) == v.k = "num" /\ ~NumLt(v, I(0)) /\ ~NumLt(I(1), v)

\* C15: the throttle is a number of [0, 1] in every state: each LOCK
\* THROTTLE leaves it there, and a LOCK of a target other than THROTTLE and
\* STEERING changes no physics field.
C15_ThrottleInUnit ==
    /\ InUnit(phys.throttle)
    /\ last = "loop" =>
          \A k \in Executed :
             InstrAt(batch[k].at).op = "LOCK"
             => /\ InUnit(batch[k].phys.throttle)
                /\ Flat(InstrAt(batch[k].at).target) \notin {"THROTTLE", "STEERING"}
                   => batch[k].phys = batch[k - 1].phys

\* C16: a tick call while running is true and waitTimer > 0 executes no
\* instruction: it takes dt from waitTimer, leaves pc, running and vars,
\* logs nothing, and leaves the physics fields to the step that follows it.
C16_WaitingTick ==
    [][(running /\ NumLt(I(0), ToNumber(waitTimer)) /\ last' = "loop")
       => /\ pc' = pc /\ running' /\ vars' = vars
          /\ log' = <<>> /\ Len(batch') = 1 /\ hits' = hits /\ ~thrown'
          /\ \E dt \in DtSet, orbit \in Orbits :
                /\ waitTimer' = NumAdd(waitTimer, NumNeg(dt))
                /\ phys' = step(phys, dt, orbit)]_allvars

\* A tick spent waiting: the WAIT is not resumed yet.
C16_Witness ==
    /\ Intact /\ last = "loop" /\ running
    /\ wait.state = "waiting" /\ Positive(wait.idle)
    /\ Len(batch) = 1 /\ log = <<>>

(***************************************************************************)
(* The end of the program.                                                 *)
(***************************************************************************)
EndEvent == LogEvent(Str("Program Ended."), "sys", <<>>)
\* The positions of the completion event in a log.
EndEvents(l) == {n \in 1..Len(l) : l[n] = EndEvent}

\* C17: the tick call that takes pc to the end of the program stops the VM
\* and logs the completion event, once; only such a call logs it, and it
\* leaves the VM stopped, so that a run logs it at most once; and after
\* every tick call a running VM has pc below the end of the program.
C17_EndOnce ==
    [][last' = "loop"
       => /\ (running /\ ~thrown' /\ pc < Len(instructions) /\ pc' >= Len(instructions))
             => (~running' /\ Cardinality(EndEvents(log')) = 1 /\ log'[Len(log')] = EndEvent)
          /\ EndEvents(log') # {}
             => (running /\ pc < Len(instructions) /\ pc' >= Len(instructions) /\ ~running')
          /\ running' => pc' < Len(instructions)]_allvars

\* The tick that ended a program after executing its last instructions.
C17_Witness ==
    /\ Intact /\ last = "loop" /\ ~running /\ ~thrown
    /\ pc = Len(instructions) /\ Len(batch) > 1 /\ batch[1].pc < Len(instructions)
    /\ log # <<>> /\ log[Len(log)] = EndEvent

(***************************************************************************)
(* Telemetry names.                                                        *)
(***************************************************************************)
\* C18: an expression that is the one token ETA:APOAPSIS has the value of
\* the time to apoapsis of the telemetry read by the evaluation: the
\* replacement of APOAPSIS, which comes first, leaves the token alone.
C18_EtaApoapsis ==
    last = "loop" =>
       \A k \in Executed :
          (InstrAt(batch[k].at).op \in EvalOps
           /\ ExprAt(batch[k].at) = <<"ETA:APOAPSIS">>)
          => batch[k].val = batch[k - 1].phys.orbit.eta

(***************************************************************************)
(* STAGE without a stage left.                                             *)
(***************************************************************************)
\* A STAGE executed with no stage left changes nothing but pc.
StageAtZero(k) ==
    (InstrAt(batch[k].at).op = "STAGE" /\ batch[k - 1].phys.stages = I(0))
    => /\ batch[k].phys = batch[k - 1].phys
       /\ batch[k].nlog = batch[k - 1].nlog
       /\ batch[k].pc = batch[k - 1].pc + 1

\* C19: the stage count, not negative at the reset, is never negative, and
\* a STAGE executed at 0 leaves stages, fuel and dry mass, logs nothing and
\* advances pc by 1.
C19_StagesNeverNegative ==
    /\ ~NumLt(ToNumber(phys.stages), I(0))
    /\ last = "loop" => \A k \in Executed : StageAtZero(k)

(***************************************************************************)
(* The range of pc.                                                        *)
(***************************************************************************)
\* C20: while the program of a script of the grammar is loaded, pc is an
\* index of the program or its length: no instruction is fetched outside.
C20_PcInRange ==
    (~loaded.err /\ loaded.src \in Conforming) => pc \in 0..Len(instructions)

\* A jump over the block that ends the script: pc is the length of the
\* program.
C20_Witness ==
    /\ ~loaded.err /\ loaded.src \in Conforming \cap {EndIfScript, EndUntilScript}
    /\ last = "loop" /\ pc = Len(instructions)
    /\ \E k \in Executed :
          /\ InstrAt(batch[k].at).op \in {"JMP_FALSE", "JMP_TRUE"}
          /\ batch[k].pc = Len(instructions) /\ batch[k].pc > batch[k].at + 1

(***************************************************************************)
(* WAIT with a literal.                                                    *)
(***************************************************************************)
\* The number a literal denotes.
LiteralValue(lit) ==
    IF Len(lit) = 1 THEN I(DigitsValue(lit[1]))
    ELSE Num(10 * DigitsValue(lit[1]) + DigitsValue(lit[3]), 10)

\* C21: compiling `WAIT d .` for a numeric literal d, with or without a
\* fractional part, gives the program of one instruction, a WAIT whose time
\* is d.
C21_WaitLiteral ==
    \A lit \in WaitLiterals :
       (last = "run" /\ loaded.src = WaitOnly(lit))
       => /\ ~loaded.err
          /\ instructions = <<[Instr("WAIT") EXCEPT !.time = LiteralValue(lit)]>>

====
